---- MODULE Spec2Model ----
(***************************************************************************)
(* A model of the issue detection and resolution engine of explain_clean:  *)
(* ProfilerService.analyze, NLPService.interpret_command /                 *)
(* _get_default_strategy / generate_insight and CleanerService.apply_fixes, *)
(* together with the pandas operations they call, the session handlers     *)
(* upload_dataset and clean_dataset, and rate_limit_middleware.            *)
(*                                                                         *)
(* Text is a sequence of one-character strings, so that lower(), title()   *)
(* and the substring test `kw in text` are computed character by           *)
(* character.  Numbers are exact rationals n/d; a cell of a column is a    *)
(* record [k, n, d, s] of kind "int", "float", "str" or "null" (NaN/None). *)
(***************************************************************************)
EXTENDS Integers, Sequences, FiniteSets, TLC

----------------------------------------------------------------------------
(* Bounds of the model                                                     *)

\* longest command, in fragments of CommandFragments
MaxWords == 2
\* longest fix list of one clean request
MaxFixes == 2
\* most rows of a generated numeric column
MaxRows == 20
\* most padding rows added to a generated high-cardinality text column
MaxPad == 2

----------------------------------------------------------------------------
(* Characters and strings (Python str)                                     *)

UpperChars == <<"A","B","C","D","E","F","G","H","I","J","K","L","M",
                "N","O","P","Q","R","S","T","U","V","W","X","Y","Z">>

LowerChars == <<"a","b","c","d","e","f","g","h","i","j","k","l","m",
                "n","o","p","q","r","s","t","u","v","w","x","y","z">>

\* the ASCII characters the model uses, in code-point order
AsciiChars == <<" ", "%", "'", "(", ")", "-", ".",
                "0","1","2","3","4","5","6","7","8","9">>
              \o UpperChars \o <<"_">> \o LowerChars

IndexIn(c, chars) == IF \E i \in 1..Len(chars) : chars[i] = c
                     THEN CHOOSE i \in 1..Len(chars) : chars[i] = c
                     ELSE 0

Ord(c) == IndexIn(c, AsciiChars)

IsUpper(c) == IndexIn(c, UpperChars) > 0
IsLower(c) == IndexIn(c, LowerChars) > 0
IsAlpha(c) == IsUpper(c) \/ IsLower(c)

LowerChar(c) == IF IsUpper(c) THEN LowerChars[IndexIn(c, UpperChars)] ELSE c
UpperChar(c) == IF IsLower(c) THEN UpperChars[IndexIn(c, LowerChars)] ELSE c

\* str.lower()
StrLower(s) == [i \in 1..Len(s) |-> LowerChar(s[i])]

\* str.title(): a cased character is upper-cased when it follows an uncased
\* one (or starts the string) and lower-cased otherwise
StrTitle(s) == [i \in 1..Len(s) |->
                  IF i = 1 \/ ~IsAlpha(s[i-1]) THEN UpperChar(s[i])
                  ELSE LowerChar(s[i])]

\* `sub in s`
Contains(sub, s) ==
  \E i \in 0..(Len(s) - Len(sub)) : \A j \in 1..Len(sub) : s[i + j] = sub[j]

\* s < t in Python's string order
StrLess(s, t) ==
  \E i \in 1..(Len(t)) :
     /\ \A j \in 1..(i-1) : j <= Len(s) /\ s[j] = t[j]
     /\ i - 1 <= Len(s)
     /\ (i > Len(s) \/ Ord(s[i]) < Ord(t[i]))

RECURSIVE Join(_, _)
\* sep.join(parts)
Join(parts, sep) ==
  IF parts = <<>> THEN <<>>
  ELSE IF Len(parts) = 1 THEN parts[1]
  ELSE parts[1] \o sep \o Join(Tail(parts), sep)

DigitChars == <<"0","1","2","3","4","5","6","7","8","9">>

RECURSIVE NatStr(_)
\* str(n) for an int n >= 0
NatStr(n) == IF n < 10 THEN <<DigitChars[n + 1]>>
             ELSE NatStr(n \div 10) \o <<DigitChars[(n % 10) + 1]>>

\* str(n) for an int
IntStr(n) == IF n < 0 THEN <<"-">> \o NatStr(-n) ELSE NatStr(n)

----------------------------------------------------------------------------
(* Numbers: exact rationals n/d with d > 0, in lowest terms                *)

Abs(x) == IF x < 0 THEN -x ELSE x

RECURSIVE Gcd(_, _)
Gcd(a, b) == IF b = 0 THEN a ELSE Gcd(b, a % b)

Rat(n, d) == LET g == Gcd(Abs(n), d)
             IN  IF n = 0 THEN [n |-> 0, d |-> 1] ELSE [n |-> n \div g, d |-> d \div g]

RInt(i) == [n |-> i, d |-> 1]
RAdd(a, b) == Rat(a.n * b.d + b.n * a.d, a.d * b.d)
RSub(a, b) == Rat(a.n * b.d - b.n * a.d, a.d * b.d)
\* a * (p/q) for integers p, q > 0
RScale(a, p, q) == Rat(a.n * p, a.d * q)
RLt(a, b) == a.n * b.d < b.n * a.d
RLe(a, b) == a.n * b.d <= b.n * a.d

\* most fractional digits of a rendered float
ReprDigits == 16

RECURSIVE FracDigits(_, _, _)
\* the decimal digits of r/d (0 <= r < d), at most k of them
FracDigits(r, d, k) ==
  IF r = 0 \/ k = 0 THEN <<>>
  ELSE <<DigitChars[((r * 10) \div d) + 1]>> \o FracDigits((r * 10) % d, d, k - 1)

\* str(x) of a float64 x: "3.0", "2.5", "-0.25"; an expansion that does not
\* end is cut after ReprDigits digits
FloatStr(x) ==
  LET a    == Abs(x.n)
      frac == FracDigits(a % x.d, x.d, ReprDigits)
  IN  (IF x.n < 0 THEN <<"-">> ELSE <<>>) \o NatStr(a \div x.d) \o <<".">>
        \o (IF frac = <<>> THEN <<"0">> ELSE frac)

IsDigit(c) == IndexIn(c, DigitChars) > 0

RECURSIVE DigitsVal(_)
DigitsVal(s) == IF s = <<>> THEN 0
                ELSE 10 * DigitsVal(SubSeq(s, 1, Len(s) - 1))
                     + (IndexIn(s[Len(s)], DigitChars) - 1)

RECURSIVE Pow10(_)
Pow10(k) == IF k = 0 THEN 1 ELSE 10 * Pow10(k - 1)

\* whether pd.to_numeric parses the string: [-]digits[.digits]
ParsesAsNumber(s) ==
  LET body == IF s # <<>> /\ s[1] = "-" THEN Tail(s) ELSE s
      dots == {i \in 1..Len(body) : body[i] = "."}
  IN  /\ body # <<>>
      /\ Cardinality(dots) <= 1
      /\ \A i \in 1..Len(body) : IsDigit(body[i]) \/ body[i] = "."
      /\ \E i \in 1..Len(body) : IsDigit(body[i])

\* the number a parsable string denotes
ParseNumber(s) ==
  LET neg  == s[1] = "-"
      body == IF neg THEN Tail(s) ELSE s
      dot  == IF \E i \in 1..Len(body) : body[i] = "."
              THEN CHOOSE i \in 1..Len(body) : body[i] = "."
              ELSE Len(body) + 1
      ip   == SubSeq(body, 1, dot - 1)
      fp   == SubSeq(body, dot + 1, Len(body))
      mag  == Rat(DigitsVal(ip) * Pow10(Len(fp)) + DigitsVal(fp), Pow10(Len(fp)))
  IN  IF neg THEN Rat(-mag.n, mag.d) ELSE mag

----------------------------------------------------------------------------
(* Cells, columns and data frames (pandas)                                 *)

\* NaN / None
Null == [k |-> "null", n |-> 0, d |-> 1, s |-> <<>>]
\* a float with the value r
FloatCell(r) == [k |-> "float", n |-> r.n, d |-> r.d, s |-> <<>>]
\* the int i
IntCell(i) == [k |-> "int", n |-> i, d |-> 1, s |-> <<>>]
\* a str
Str(s) == [k |-> "str", n |-> 0, d |-> 1, s |-> s]

IsNull(v) == v.k = "null"
IsNum(v) == v.k \in {"int", "float"}
IsStr(v) == v.k = "str"
RatOf(v) == [n |-> v.n, d |-> v.d]

\* A column is [name, dtype, vals]; dtype is "int64", "float64" or "object".
\* A data frame is a sequence of columns of one length.
Column(name, dtype, vals) == [name |-> name, dtype |-> dtype, vals |-> vals]

\* len(df)
NRows(df) == IF df = <<>> THEN 0 ELSE Len(df[1].vals)

\* the row at position i, as the tuple of its cells
Row(df, i) == [c \in 1..Len(df) |-> df[c].vals[i]]

RECURSIVE SelectSeq2(_, _, _)
\* the elements of s at the positions of the set keep, in order
SelectSeq2(s, keep, i) ==
  IF i > Len(s) THEN <<>>
  ELSE (IF i \in keep THEN <<s[i]>> ELSE <<>>) \o SelectSeq2(s, keep, i + 1)

\* df[mask]: the rows at the positions keep
TakeRows(df, keep) ==
  [c \in 1..Len(df) |-> [df[c] EXCEPT !.vals = SelectSeq2(df[c].vals, keep, 1)]]

\* pd.api.types.is_numeric_dtype / select_dtypes(include=[np.number])
IsNumericDtype(col) == col.dtype \in {"int64", "float64"}

\* the position of the column named `name`, 0 when there is none (KeyError)
ColIndex(df, name) ==
  IF \E c \in 1..Len(df) : df[c].name = name
  THEN CHOOSE c \in 1..Len(df) : df[c].name = name
  ELSE 0

\* the dtype pandas infers for a sequence of cells
InferDtype(vals) ==
  IF \E i \in 1..Len(vals) : IsStr(vals[i]) THEN "object"
  ELSE IF \E i \in 1..Len(vals) : vals[i].k \in {"null", "float"} THEN "float64"
  ELSE "int64"

\* the cells as a column of the dtype holds them: a float64 column holds
\* its numbers as floats
AsDtype(vals, dtype) ==
  [i \in 1..Len(vals) |->
     IF dtype = "float64" /\ IsNum(vals[i]) THEN FloatCell(RatOf(vals[i])) ELSE vals[i]]

\* Series.isnull().sum()
NullCount(vals) == Cardinality({i \in 1..Len(vals) : IsNull(vals[i])})

\* the non-null cells, in order (dropna)
NonNull(vals) == SelectSeq(vals, LAMBDA v : ~IsNull(v))

\* df.duplicated(): the positions of rows equal to an earlier row
Duplicated(df) ==
  {i \in 1..NRows(df) : \E j \in 1..(i - 1) : Row(df, j) = Row(df, i)}

\* Series.unique() of the non-null cells: first occurrences, in order
Unique(vals) ==
  LET nn == NonNull(vals)
  IN  SelectSeq2(nn, {i \in 1..Len(nn) : \A j \in 1..(i - 1) : nn[j] # nn[i]}, 1)

\* Series.nunique()
NUnique(vals) == Len(Unique(vals))

----------------------------------------------------------------------------
(* Descriptive statistics (pandas Series)                                  *)

RECURSIVE InsertSorted(_, _)
InsertSorted(x, s) ==
  IF s = <<>> THEN <<x>>
  ELSE IF RLe(x, s[1]) THEN <<x>> \o s
  ELSE <<s[1]>> \o InsertSorted(x, Tail(s))

RECURSIVE SortRats(_)
SortRats(s) == IF s = <<>> THEN <<>> ELSE InsertSorted(s[1], SortRats(Tail(s)))

\* the non-null numbers of a column, ascending
SortedNums(vals) ==
  LET nn == NonNull(vals) IN SortRats([i \in 1..Len(nn) |-> RatOf(nn[i])])

\* whether a statistic of the column can be computed: a text cell makes
\* mean(), median() and quantile() raise TypeError
HasText(vals) == \E i \in 1..Len(vals) : IsStr(vals[i])

\* Series.quantile(p/q), linear interpolation over the non-null values; a
\* column with no value has the quantile NaN, which is Null here
Quantile(vals, p, q) ==
  LET sorted == SortedNums(vals)
      n      == Len(sorted)
      lo     == ((n - 1) * p) \div q
      rem    == ((n - 1) * p) % q
  IN  IF n = 0 THEN Null
      ELSE IF rem = 0 THEN FloatCell(sorted[lo + 1])
      ELSE FloatCell(RAdd(sorted[lo + 1],
                    RScale(RSub(sorted[lo + 2], sorted[lo + 1]), rem, q)))

\* Series.median()
Median(vals) == Quantile(vals, 1, 2)

RECURSIVE SumRats(_)
SumRats(s) == IF s = <<>> THEN RInt(0) ELSE RAdd(s[1], SumRats(Tail(s)))

\* Series.mean()
Mean(vals) ==
  LET sorted == SortedNums(vals)
  IN  IF sorted = <<>> THEN Null
      ELSE FloatCell(RScale(SumRats(sorted), 1, Len(sorted)))

\* the fences [Q1 - 1.5 IQR, Q3 + 1.5 IQR]; both NaN when the column is empty
Fences(vals) ==
  LET Q1 == Quantile(vals, 1, 4)
      Q3 == Quantile(vals, 3, 4)
  IN  IF IsNull(Q1) THEN [lower |-> Null, upper |-> Null]
      ELSE LET IQR == RSub(RatOf(Q3), RatOf(Q1))
           IN  [lower |-> FloatCell(RSub(RatOf(Q1), RScale(IQR, 3, 2))),
                upper |-> FloatCell(RAdd(RatOf(Q3), RScale(IQR, 3, 2)))]

\* (col < lower) | (col > upper): a comparison with NaN is False
OutlierRows(vals) ==
  LET f == Fences(vals)
  IN  {i \in 1..Len(vals) :
         /\ IsNum(vals[i])
         /\ ~IsNull(f.lower)
         /\ \/ RLt(RatOf(vals[i]), RatOf(f.lower))
            \/ RLt(RatOf(f.upper), RatOf(vals[i]))}

\* pd.to_numeric(cell, errors='coerce'): "12" is the int 12, "1.5" the float
ToNumeric(v) ==
  IF IsStr(v)
  THEN IF ~ParsesAsNumber(v.s) THEN Null
       ELSE IF \E i \in 1..Len(v.s) : v.s[i] = "." THEN FloatCell(ParseNumber(v.s))
       ELSE IntCell(ParseNumber(v.s).n)
  ELSE v

----------------------------------------------------------------------------
(* Issues (app/models.py)                                                  *)

\* IssueType
MISSING_VALUES == "Missing Values"
DUPLICATES == "Duplicates"
OUTLIERS == "Outliers"
INCONSISTENT_TYPE == "Inconsistent Type"
TEXT_INCONSISTENCY == "Text Inconsistency"
VISUALIZATION_RISK == "Visualization Risk"

\* DetectedIssue.column = None; read_csv gives no column the empty name
NoColumn == <<>>

\* A DetectedIssue, with the action_code of each of its strategies; the
\* display-only fields (impact, strategy names) are left out.
Issue(type, column, description, severity, row_count, strategies) ==
  [id |-> 0, type |-> type, column |-> column, description |-> description,
   severity |-> severity, row_count |-> row_count, strategies |-> strategies]

----------------------------------------------------------------------------
(* ProfilerService.analyze                                                 *)

RECURSIVE ConcatMap(_, _, _)
\* F(i) \o F(i+1) \o ... \o F(n)
ConcatMap(F(_), i, n) == IF i > n THEN <<>> ELSE F(i) \o ConcatMap(F, i + 1, n)

\* '%.1f' % (count / nrows * 100): tenths rounded half to even, which is what
\* the float gives for every nrows below 80
PctStr(count, nrows) ==
  LET q == (count * 1000) \div nrows
      r == (count * 1000) % nrows
      t == IF 2 * r > nrows \/ (2 * r = nrows /\ q % 2 = 1) THEN q + 1 ELSE q
  IN  NatStr(t \div 10) \o <<".">> \o NatStr(t % 10)

\* severity = HIGH if pct > 20 else MEDIUM, with pct = count / len(df) * 100
MissingSeverityLax(count, nrows) ==
  IF count * 100 >= 20 * nrows THEN "High" ELSE "Medium"

MissingSeverity(count, nrows) ==
  IF count * 100 > 20 * nrows THEN "High" ELSE "Medium"

\* the strategies of a missing-values issue, after the insert() calls
MissingStrategies(col) ==
  IF IsNumericDtype(col)
  THEN <<"drop_rows", "fill_median", "fill_mean", "ffill", "ignore">>
  ELSE <<"drop_rows", "fill_mode", "fill_unknown", "ignore">>

\* 1. Missing Values
MissingIssues(df) ==
  LET One(c) ==
        LET count == NullCount(df[c].vals)
        IN  IF count > 0
            THEN <<Issue(MISSING_VALUES, df[c].name,
                         <<"C","o","l","u","m","n"," ","'">> \o df[c].name \o <<"'"," ","h","a","s"," ">> \o NatStr(count)
                           \o <<" ","m","i","s","s","i","n","g"," ","v","a","l","u","e","s"," ","(">> \o PctStr(count, NRows(df))
                           \o <<"%",")",".">>,
                         MissingSeverity(count, NRows(df)), count,
                         MissingStrategies(df[c]))>>
            ELSE <<>>
  IN  ConcatMap(One, 1, Len(df))

\* 2. Duplicates
DuplicateIssues(df) ==
  LET dupes == Cardinality(Duplicated(df))
  IN  IF dupes > 0
      THEN <<Issue(DUPLICATES, NoColumn,
                   <<"D","a","t","a","s","e","t"," ","c","o","n","t","a","i","n","s"," ">> \o NatStr(dupes) \o <<" ","e","x","a","c","t"," ","d","u","p","l","i","c","a","t","e"," ","r","o","w","s",".">>,
                   "High", dupes, <<"remove_duplicates", "ignore">>)>>
      ELSE <<>>

\* "id" in col.lower() or "key" in col.lower() or "code" in col.lower()
IsIdentifierName(name) ==
  \/ Contains(<<"i","d">>, StrLower(name))
  \/ Contains(<<"k","e","y">>, StrLower(name))
  \/ Contains(<<"c","o","d","e">>, StrLower(name))

\* outliers > 0 and 0 < pct < 15, with pct = outliers / len(df) * 100
OutlierFlaggedLax(outliers, nrows) ==
  outliers > 0 /\ 0 < outliers * 100 /\ outliers * 100 <= 15 * nrows

OutlierFlagged(outliers, nrows) ==
  outliers > 0 /\ 0 < outliers * 100 /\ outliers * 100 < 15 * nrows

\* 3. Numeric Outliers (Skip IDs)
OutlierIssues(df) ==
  LET One(c) ==
        IF ~IsNumericDtype(df[c]) \/ IsIdentifierName(df[c].name) THEN <<>>
        ELSE LET outliers == Cardinality(OutlierRows(df[c].vals))
             IN  IF OutlierFlagged(outliers, NRows(df))
                 THEN <<Issue(OUTLIERS, df[c].name,
                              <<"C","o","l","u","m","n"," ","'">> \o df[c].name \o <<"'"," ","h","a","s"," ">>
                                \o NatStr(outliers) \o <<" ","o","u","t","l","i","e","r","s",".">>,
                              "Medium", outliers,
                              <<"clip_outliers", "drop_outliers", "ignore">>)>>
                 ELSE <<>>
  IN  ConcatMap(One, 1, Len(df))

\* 4. Inconsistent Types (Numbers as Strings)
InconsistentTypeIssues(df) ==
  LET One(c) ==
        IF df[c].dtype # "object" THEN <<>>
        ELSE LET vals      == df[c].vals
                 num_valid == Cardinality({i \in 1..Len(vals) : ~IsNull(ToNumeric(vals[i]))})
             IN  IF 10 * num_valid > 8 * NRows(df) /\ num_valid < NRows(df)
                 THEN <<Issue(INCONSISTENT_TYPE, df[c].name,
                              <<"C","o","l","u","m","n"," ","'">> \o df[c].name
                                \o <<"'"," ","l","o","o","k","s"," ","n","u","m","e","r","i","c"," ","b","u","t"," ","c","o","n","t","a","i","n","s"," ","t","e","x","t","/","g","a","r","b","a","g","e",".">>,
                              "High", NRows(df), <<"convert_numeric", "ignore">>)>>
                 ELSE <<>>
  IN  ConcatMap(One, 1, Len(df))

\* 5. Text Inconsistency (Case sensitivity)
TextInconsistencyIssues(df) ==
  LET One(c) ==
        IF df[c].dtype # "object" \/ ~(NUnique(df[c].vals) < 50) THEN <<>>
        ELSE LET unique_vals  == Unique(df[c].vals)
                 unique_lower == {StrLower(unique_vals[i].s) :
                                    i \in {j \in 1..Len(unique_vals) : IsStr(unique_vals[j])}}
             IN  IF Cardinality(unique_lower) < Len(unique_vals)
                 THEN <<Issue(TEXT_INCONSISTENCY, df[c].name,
                              <<"C","o","l","u","m","n"," ","'">> \o df[c].name
                                \o <<"'"," ","h","a","s"," ","i","n","c","o","n","s","i","s","t","e","n","t"," ","t","e","x","t"," ","c","a","s","i","n","g"," ","(","e",".","g",".",","," ","'","A","'"," ","v","s"," ","'","a","'",")",".">>,
                              "Low", NRows(df), <<"title_case", "lower_case", "ignore">>)>>
                 ELSE <<>>
  IN  ConcatMap(One, 1, Len(df))

\* analyze(df): the issues of the five checks in order; uuid4 ids are fresh,
\* here the numbers after `base`, the last id handed out so far
Analyze(df, base) ==
  LET found == MissingIssues(df) \o DuplicateIssues(df) \o OutlierIssues(df)
                 \o InconsistentTypeIssues(df) \o TextInconsistencyIssues(df)
  IN  [i \in 1..Len(found) |-> [found[i] EXCEPT !.id = base + i]]

----------------------------------------------------------------------------
(* The data sets the model explores                                        *)

\* A numeric column of n rows: m nulls first, then regular measurements
\* 10, 11, 12, 10, ..., then k extreme values 100.  As read_csv types it:
\* float64 when a value is missing, int64 otherwise.
NumericVals(n, k, m) ==
  AsDtype([i \in 1..n |-> IF i <= m THEN Null
                           ELSE IF i > n - k THEN IntCell(100)
                           ELSE IntCell(10 + (i % 3))],
          IF m > 0 THEN "float64" ELSE "int64")

NumericFrame(name, n, k, m) ==
  <<Column(name, IF m > 0 THEN "float64" ELSE "int64", NumericVals(n, k, m))>>

NumericNames == {<<"a","m","o","u","n","t">>, <<"s","c","o","r","e">>, <<"W","i","d","t","h">>, <<"z","i","p","C","O","D","E">>, <<"o","r","d","e","r","_","k","e","y">>}

NumericFrames ==
  {NumericFrame(name, n, k, m) :
     name \in NumericNames,
     n \in 1..MaxRows,
     k \in 0..3,
     m \in 0..2}

\* the label "v<i>"
Label(i) == <<"v">> \o NatStr(i)

\* A text column of k + pad rows holding k distinct labels; the pad rows
\* repeat the first labels.
TextFrame(k, pad) ==
  <<Column(<<"c","i","t","y">>, "object",
           [i \in 1..(k + pad) |-> Str(Label(IF i <= k THEN i ELSE i - k))])>>

TextFrames == {TextFrame(k, pad) : k \in 49..52, pad \in 0..MaxPad}

\* the frames handed to analyze
ProfiledFrames == NumericFrames \cup TextFrames

----------------------------------------------------------------------------
(* State                                                                   *)

VARIABLES
  pc,         \* what has run: "start", "loaded", "analyzed", "interpreted", "narrated",
              \* "cleaned", "failed"
  uploaded,   \* session["original_df"]: the data set as uploaded
  df,         \* session["current_df"]
  issues,     \* session["issues"]: the issues of the latest detection pass, in order
  audit_log,  \* session["audit_log"]
  ids_used,   \* how many issue ids (uuid4) have been handed out
  command,    \* the text given to interpret_command
  actions,    \* the (issue id, action code) pairs interpret_command returned
  fixes,      \* the fixes of the clean request
  result,     \* the apply_fixes call of the clean request, when it has ended
  request_counts,  \* main.request_counts: per client address, the times recorded
  now,             \* the clock that time.time() reads, in seconds
  response         \* what the last request through the middleware got

\* the state of the rate limiter
limiter == <<request_counts, now, response>>

\* the clients that send requests
Clients == {"10.0.0.1", "10.0.0.2"}

\* request_counts = defaultdict(list); no request has been made
InitLimiter ==
  /\ request_counts = [ip \in Clients |-> <<>>]
  /\ now = 0
  /\ response = <<>>

vars == <<pc, uploaded, df, issues, audit_log, ids_used, command, actions, fixes, result,
          request_counts, now, response>>

----------------------------------------------------------------------------
(* Detection: analyze applied to a data set                                *)

InitAnalyze ==
  /\ pc = "loaded"
  /\ df \in ProfiledFrames
  /\ uploaded = df
  /\ issues = <<>>
  /\ audit_log = <<>>
  /\ ids_used = 0
  /\ command = <<>>
  /\ actions = <<>>
  /\ fixes = <<>>
  /\ result = <<>>
  /\ InitLimiter

\* issues = ProfilerService.analyze(df)
Profile ==
  /\ pc = "loaded"
  /\ pc' = "analyzed"
  /\ issues' = Analyze(df, ids_used)
  /\ ids_used' = ids_used + Len(issues')
  /\ UNCHANGED <<uploaded, df, audit_log, command, actions, fixes, result>>
  /\ UNCHANGED limiter

NextAnalyze == Profile

SpecAnalyze == InitAnalyze /\ [][NextAnalyze]_vars

----------------------------------------------------------------------------
(* Claims about analyze (checked under SpecAnalyze)                        *)

\* the positions of the issues of a type about a column
IssuesAbout(type, name) ==
  {i \in 1..Len(issues) : issues[i].type = type /\ issues[i].column = name}

\* C7: analyze emits one MissingValues issue for exactly the columns with a
\* null, with row_count the null count and severity High when more than 20%
\* of the rows are null and Medium otherwise (Medium at exactly 20%).
C7_MissingValues ==
  pc = "analyzed" =>
    /\ \A c \in 1..Len(df) :
         LET nulls == Cardinality({i \in 1..NRows(df) : df[c].vals[i].k = "null"})
             found == IssuesAbout(MISSING_VALUES, df[c].name)
         IN  /\ Cardinality(found) = (IF nulls > 0 THEN 1 ELSE 0)
             /\ \A i \in found :
                  /\ issues[i].row_count = nulls
                  /\ issues[i].severity =
                       (IF 5 * nulls > NRows(df) THEN "High" ELSE "Medium")
    /\ \A i \in 1..Len(issues) :
         issues[i].type = MISSING_VALUES =>
           \E c \in 1..Len(df) : df[c].name = issues[i].column

\* a column with exactly 20% nulls has been given a Medium issue
C7_Witness ==
  /\ pc = "analyzed"
  /\ \E i \in 1..Len(issues) :
       /\ issues[i].type = MISSING_VALUES
       /\ 5 * issues[i].row_count = NRows(df)
       /\ issues[i].severity = "Medium"

\* C8: an Outliers issue is only emitted for a numeric column whose name
\* holds none of "id", "key", "code" in any letter case and of whose rows
\* more than 0% and less than 15% lie outside the IQR fences.
C8_Outliers ==
  pc = "analyzed" =>
    \A i \in 1..Len(issues) :
      issues[i].type = OUTLIERS =>
        \E c \in 1..Len(df) :
          LET lowered == StrLower(df[c].name)
              outside == Cardinality(OutlierRows(df[c].vals))
          IN  /\ df[c].name = issues[i].column
              /\ df[c].dtype \in {"int64", "float64"}
              /\ ~Contains(<<"i","d">>, lowered)
              /\ ~Contains(<<"k","e","y">>, lowered)
              /\ ~Contains(<<"c","o","d","e">>, lowered)
              /\ 0 < outside
              /\ 100 * outside < 15 * NRows(df)
              /\ issues[i].row_count = outside

\* an Outliers issue has been emitted
C8_Witness ==
  /\ pc = "analyzed"
  /\ \E i \in 1..Len(issues) : issues[i].type = OUTLIERS

\* C10 (as claimed): every text column with more than 50 and fewer than
\* len(df) distinct values gets a Low VisualizationRisk issue with the
\* strategies group_rare and ignore.
C10_VisualizationRisk ==
  pc = "analyzed" =>
    \A c \in 1..Len(df) :
      (df[c].dtype = "object" /\ 50 < NUnique(df[c].vals) /\ NUnique(df[c].vals) < NRows(df))
        => \E i \in IssuesAbout(VISUALIZATION_RISK, df[c].name) :
             /\ issues[i].severity = "Low"
             /\ issues[i].strategies = <<"group_rare", "ignore">>

----------------------------------------------------------------------------
(* NLPService (app/services/nlp.py)                                        *)

\* the advisor without the test row_count / 1000 < 0.05
DefaultStrategyBelow20(issue) ==
  IF issue.type = DUPLICATES THEN "remove_duplicates"
  ELSE IF issue.type = MISSING_VALUES THEN
    IF issue.row_count < 20 THEN "drop_rows"
    ELSE IF /\ issue.column # NoColumn
            /\ \/ Contains(<<"d","a","t","e">>, StrLower(issue.column))
               \/ Contains(<<"t","i","m","e">>, StrLower(issue.column))
         THEN "ffill"
    ELSE IF Contains(<<"N","u","m","e","r","i","c">>, issue.description) THEN "fill_median"
    ELSE "fill_mode"
  ELSE IF issue.type = OUTLIERS THEN "clip_outliers"
  ELSE IF issue.type = VISUALIZATION_RISK THEN "group_rare"
  ELSE IF issue.type = INCONSISTENT_TYPE THEN "convert_numeric"
  ELSE IF issue.type = TEXT_INCONSISTENCY THEN "title_case"
  ELSE "ignore"

\* _get_default_strategy(issue); row_count / 1000 < 0.05 is row_count < 50
DefaultStrategy(issue) ==
  IF issue.type = DUPLICATES THEN "remove_duplicates"
  ELSE IF issue.type = MISSING_VALUES THEN
    IF issue.row_count < 20 \/ issue.row_count * 100 < 5 * 1000 THEN "drop_rows"
    ELSE IF /\ issue.column # NoColumn
            /\ \/ Contains(<<"d","a","t","e">>, StrLower(issue.column))
               \/ Contains(<<"t","i","m","e">>, StrLower(issue.column))
         THEN "ffill"
    ELSE IF Contains(<<"N","u","m","e","r","i","c">>, issue.description) THEN "fill_median"
    ELSE "fill_mode"
  ELSE IF issue.type = OUTLIERS THEN "clip_outliers"
  ELSE IF issue.type = VISUALIZATION_RISK THEN "group_rare"
  ELSE IF issue.type = INCONSISTENT_TYPE THEN "convert_numeric"
  ELSE IF issue.type = TEXT_INCONSISTENCY THEN "title_case"
  ELSE "ignore"

\* the (issue.id, strategy) pairs of the issues that satisfy Pick, in order
Selections(iss, Pick(_), Strategy(_)) ==
  LET One(i) == IF Pick(iss[i]) /\ Strategy(iss[i]) # ""
                THEN <<[issue_id |-> iss[i].id, strategy_code |-> Strategy(iss[i])]>>
                ELSE <<>>
  IN  ConcatMap(One, 1, Len(iss))

\* the branches tried in the reverse order
IntentFallsThrough(text) ==
  LET Has(kw) == Contains(kw, text)
  IN  IF Has(<<"a","l","l">>) \/ Has(<<"e","v","e","r","y","t","h","i","n","g">>) THEN "all"
      ELSE IF Has(<<"t","y","p","e">>) \/ Has(<<"n","u","m","b","e","r">>) THEN "type"
      ELSE IF Has(<<"t","e","x","t">>) \/ Has(<<"c","a","s","e">>) THEN "text"
      ELSE IF Has(<<"m","i","s","s","i","n","g">>) \/ Has(<<"n","u","l","l">>) \/ Has(<<"e","m","p","t","y">>) THEN "missing"
      ELSE IF Has(<<"h","i","g","h">>) \/ Has(<<"c","r","i","t","i","c","a","l">>) \/ Has(<<"s","e","v","e","r","e">>) THEN "high"
      ELSE "none"

\* a command that contains no keyword taken as catch-all
IntentCatchAll(text) ==
  LET Has(kw) == Contains(kw, text)
  IN  IF Has(<<"h","i","g","h">>) \/ Has(<<"c","r","i","t","i","c","a","l">>)
           \/ Has(<<"s","e","v","e","r","e">>) THEN "high"
      ELSE IF Has(<<"m","i","s","s","i","n","g">>) \/ Has(<<"n","u","l","l">>)
           \/ Has(<<"e","m","p","t","y">>) THEN "missing"
      ELSE IF Has(<<"t","e","x","t">>) \/ Has(<<"c","a","s","e">>) THEN "text"
      ELSE IF Has(<<"t","y","p","e">>) \/ Has(<<"n","u","m","b","e","r">>) THEN "type"
      ELSE "all"

\* the branch of interpret_command the lower-cased command takes: the first
\* whose keywords it contains, "none" when it contains no keyword
Intent(text) ==
  LET Has(kw) == Contains(kw, text)
  IN  IF Has(<<"h","i","g","h">>) \/ Has(<<"c","r","i","t","i","c","a","l">>) \/ Has(<<"s","e","v","e","r","e">>) THEN "high"
      ELSE IF Has(<<"m","i","s","s","i","n","g">>) \/ Has(<<"n","u","l","l">>) \/ Has(<<"e","m","p","t","y">>) THEN "missing"
      ELSE IF Has(<<"t","e","x","t">>) \/ Has(<<"c","a","s","e">>) THEN "text"
      ELSE IF Has(<<"t","y","p","e">>) \/ Has(<<"n","u","m","b","e","r">>) THEN "type"
      ELSE IF Has(<<"a","l","l">>) \/ Has(<<"e","v","e","r","y","t","h","i","n","g">>) THEN "all"
      ELSE "none"

\* interpret_command(command, issues)
InterpretCommand(cmd, iss) ==
  LET intent == Intent(StrLower(cmd))
  IN  IF intent = "high"
        THEN Selections(iss, LAMBDA i : i.severity = "High", DefaultStrategy)
      ELSE IF intent = "missing"
        THEN Selections(iss, LAMBDA i : i.type = MISSING_VALUES, DefaultStrategy)
      ELSE IF intent = "text"
        THEN Selections(iss, LAMBDA i : i.type = TEXT_INCONSISTENCY,
                        LAMBDA i : "title_case")
      ELSE IF intent = "type"
        THEN Selections(iss, LAMBDA i : i.type = INCONSISTENT_TYPE,
                        LAMBDA i : "convert_numeric")
      ELSE IF intent = "all"
        THEN Selections(iss, LAMBDA i : TRUE, DefaultStrategy)
      ELSE <<>>

----------------------------------------------------------------------------
(* Interpretation: interpret_command applied to a command and the issues   *)
(* of a detection pass                                                     *)

\* an uploaded table with every kind of issue analyze detects: a missing
\* age and an age outlier, missing and differently cased cities, a quantity
\* column that is numeric but for one cell, and a repeated row
PeopleFrame ==
  <<Column(<<"a","g","e">>, "float64",
           AsDtype(<<IntCell(25), IntCell(30), Null, IntCell(28), IntCell(200), IntCell(27), IntCell(26), IntCell(25)>>,
                   "float64")),
    Column(<<"c","i","t","y">>, "object",
           <<Str(<<"N","o","r","t","h">>), Str(<<"n","o","r","t","h">>), Str(<<"S","o","u","t","h">>), Str(<<"N","o","r","t","h">>),
             Null, Null, Str(<<"E","a","s","t">>), Str(<<"N","o","r","t","h">>)>>),
    Column(<<"q","t","y">>, "object",
           <<Str(<<"1">>), Str(<<"2">>), Str(<<"3">>), Str(<<"4">>),
             Str(<<"5">>), Str(<<"6">>), Str(<<"x">>), Str(<<"1">>)>>)>>

\* a table with no issue
CleanFrame ==
  <<Column(<<"u","s","e","r","_","i","d">>, "int64", <<IntCell(1), IntCell(2), IntCell(3)>>)>>

\* a table whose only issue is a date column with a missing cell
SignupFrame ==
  <<Column(<<"s","i","g","n","u","p","_","d","a","t","e">>, "object",
           <<Str(<<"2","0","2","0","-","0","1","-","0","1">>), Null, Str(<<"2","0","2","0","-","0","1","-","0","3">>), Str(<<"2","0","2","0","-","0","1","-","0","4">>)>>)>>

SampleFrames == {PeopleFrame, CleanFrame, SignupFrame}

CommandFragments ==
  {<<"f","i","x"," ","a","l","l">>, <<"m","i","s","s","i","n","g"," ","v","a","l","u","e","s">>, <<"H","i","g","h">>, <<"C","R","I","T","I","C","A","L">>, <<"s","e","v","e","r","e">>, <<"n","u","l","l">>,
   <<"e","m","p","t","y">>, <<"t","e","x","t">>, <<"C","a","s","e">>, <<"t","y","p","e">>, <<"n","u","m","b","e","r">>, <<"e","v","e","r","y","t","h","i","n","g">>, <<"b","a","n","a","n","a">>}

\* the commands: up to MaxWords fragments joined by blanks
Commands ==
  {Join(parts, <<" ">>) :
     parts \in UNION {[1..n -> CommandFragments] : n \in 0..MaxWords}}

InitInterpret ==
  /\ pc = "analyzed"
  /\ df \in SampleFrames
  /\ uploaded = df
  /\ issues = Analyze(df, 0)
  /\ audit_log = <<>>
  /\ ids_used = Len(issues)
  /\ command \in Commands
  /\ actions = <<>>
  /\ fixes = <<>>
  /\ result = <<>>
  /\ InitLimiter

\* actions = NLPService.interpret_command(command, issues)
Interpret ==
  /\ pc = "analyzed"
  /\ pc' = "interpreted"
  /\ actions' = InterpretCommand(command, issues)
  /\ UNCHANGED <<uploaded, df, issues, audit_log, ids_used, command, fixes, result>>
  /\ UNCHANGED limiter

NextInterpret == Interpret

SpecInterpret == InitInterpret /\ [][NextInterpret]_vars

----------------------------------------------------------------------------
(* Claims about interpret_command (checked under SpecInterpret)            *)

\* whether the lower-cased command contains one of the keywords
Mentions(kws) == \E kw \in kws : Contains(kw, StrLower(command))

\* the k-th smallest element of a set of numbers
Kth(S, k) == CHOOSE i \in S : Cardinality({j \in S : j < i}) = k - 1

\* actions holds exactly one pair per issue at the positions picked, in
\* issue order, each with the strategy Strategy gives for its issue
OnePerIssue(picked, Strategy(_)) ==
  /\ Len(actions) = Cardinality(picked)
  /\ \A k \in 1..Len(actions) :
       /\ actions[k].issue_id = issues[Kth(picked, k)].id
       /\ actions[k].strategy_code = Strategy(issues[Kth(picked, k)])

IssuesOfType(type) == {i \in 1..Len(issues) : issues[i].type = type}

\* C1 (as claimed): a command that contains "missing" and neither "high" nor
\* "critical" yields exactly one selection per MissingValues issue, in issue
\* order, and none for an issue of another type.
C1_MissingOnly ==
  (pc = "interpreted" /\ Mentions({<<"m","i","s","s","i","n","g">>}) /\ ~Mentions({<<"h","i","g","h">>, <<"c","r","i","t","i","c","a","l">>}))
    => OnePerIssue(IssuesOfType(MISSING_VALUES), DefaultStrategy)

\* C1 (amended): only the first intent whose keywords the lower-cased command
\* contains fires, in the order severity-high ("high", "critical", "severe"),
\* missing-values ("missing", "null", "empty"), text-casing, type-conversion,
\* catch-all.  A command that contains "missing" and none of "high",
\* "critical", "severe" yields exactly one selection per MissingValues
\* issue, in issue order, and none for an issue of another type.
C1_FirstIntentOnly ==
  LET high    == Mentions({<<"h","i","g","h">>, <<"c","r","i","t","i","c","a","l">>, <<"s","e","v","e","r","e">>})
      missing == Mentions({<<"m","i","s","s","i","n","g">>, <<"n","u","l","l">>, <<"e","m","p","t","y">>})
      text    == Mentions({<<"t","e","x","t">>, <<"c","a","s","e">>})
      type    == Mentions({<<"t","y","p","e">>, <<"n","u","m","b","e","r">>})
      all     == Mentions({<<"a","l","l">>, <<"e","v","e","r","y","t","h","i","n","g">>})
  IN  pc = "interpreted" =>
        /\ high =>
             OnePerIssue({i \in 1..Len(issues) : issues[i].severity = "High"},
                         DefaultStrategy)
        /\ (~high /\ missing) =>
             OnePerIssue(IssuesOfType(MISSING_VALUES), DefaultStrategy)
        /\ (~high /\ ~missing /\ text) =>
             OnePerIssue(IssuesOfType(TEXT_INCONSISTENCY), LAMBDA i : "title_case")
        /\ (~high /\ ~missing /\ ~text /\ type) =>
             OnePerIssue(IssuesOfType(INCONSISTENT_TYPE), LAMBDA i : "convert_numeric")
        /\ (~high /\ ~missing /\ ~text /\ ~type /\ all) =>
             OnePerIssue(1..Len(issues), DefaultStrategy)
        /\ (Mentions({<<"m","i","s","s","i","n","g">>}) /\ ~high) =>
             /\ OnePerIssue(IssuesOfType(MISSING_VALUES), DefaultStrategy)
             /\ \A k \in 1..Len(actions) :
                  \A i \in 1..Len(issues) :
                    issues[i].id = actions[k].issue_id => issues[i].type = MISSING_VALUES

\* a command with "missing" and the later keyword "all" was interpreted on
\* issues of several types and selected the MissingValues issues alone
C1_Witness ==
  /\ pc = "interpreted"
  /\ Mentions({<<"m","i","s","s","i","n","g">>}) /\ Mentions({<<"a","l","l">>})
  /\ ~Mentions({<<"h","i","g","h">>, <<"c","r","i","t","i","c","a","l">>, <<"s","e","v","e","r","e">>})
  /\ IssuesOfType(DUPLICATES) # {}
  /\ Len(actions) = Cardinality(IssuesOfType(MISSING_VALUES))
  /\ Len(actions) > 1

\* C2 (as claimed): a command that contains none of "high", "critical",
\* "missing", "text", "case", "type", "number", "all", "everything" yields no
\* selection, whatever the issues.
C2_NoKeywordOfSpec ==
  (pc = "interpreted"
     /\ ~Mentions({<<"h","i","g","h">>, <<"c","r","i","t","i","c","a","l">>, <<"m","i","s","s","i","n","g">>, <<"t","e","x","t">>, <<"c","a","s","e">>,
                   <<"t","y","p","e">>, <<"n","u","m","b","e","r">>, <<"a","l","l">>, <<"e","v","e","r","y","t","h","i","n","g">>}))
    => actions = <<>>

\* C2 (amended): a command that contains none of "high", "critical",
\* "severe", "missing", "null", "empty", "text", "case", "type", "number",
\* "all", "everything" yields no selection, whatever the issues.
C2_NoKeyword ==
  (pc = "interpreted"
     /\ ~Mentions({<<"h","i","g","h">>, <<"c","r","i","t","i","c","a","l">>, <<"s","e","v","e","r","e">>, <<"m","i","s","s","i","n","g">>, <<"n","u","l","l">>,
                   <<"e","m","p","t","y">>, <<"t","e","x","t">>, <<"c","a","s","e">>, <<"t","y","p","e">>, <<"n","u","m","b","e","r">>, <<"a","l","l">>,
                   <<"e","v","e","r","y","t","h","i","n","g">>}))
    => actions = <<>>

\* "banana" was interpreted on a non-empty issue list and selected nothing
C2_Witness ==
  /\ pc = "interpreted"
  /\ command = <<"b","a","n","a","n","a">>
  /\ issues # <<>>
  /\ actions = <<>>

----------------------------------------------------------------------------
(* CleanerService.apply_fixes (app/services/cleaner.py)                    *)

\* f"{val:.2f}": hundredths rounded half to even, "nan" for NaN
Fixed2(v) ==
  IF IsNull(v) THEN <<"n","a","n">>
  ELSE LET a == Abs(v.n) * 100
           q == a \div v.d
           r == a % v.d
           t == IF 2 * r > v.d \/ (2 * r = v.d /\ q % 2 = 1) THEN q + 1 ELSE q
       IN  (IF v.n < 0 THEN <<"-">> ELSE <<>>) \o NatStr(t \div 100) \o <<".">>
             \o NatStr((t % 100) \div 10) \o NatStr(t % 10)

\* str(cell), as astype(str) and f"{val}" give it
CellStr(v) ==
  IF IsStr(v) THEN v.s
  ELSE IF IsNull(v) THEN <<"n","a","n">>
  ELSE IF v.k = "int" THEN IntStr(v.n)
  ELSE FloatStr(RatOf(v))

\* how often a cell occurs in a column
CountOf(v, vals) == Cardinality({i \in 1..Len(vals) : vals[i] = v})

\* a < b for two cells that sort (numbers, or strings)
CellLess(a, b) ==
  IF IsStr(a) /\ IsStr(b) THEN StrLess(a.s, b.s)
  ELSE IsNum(a) /\ IsNum(b) /\ RLt(RatOf(a), RatOf(b))

\* Series.mode(): the most frequent non-null cells, ascending; when they do
\* not sort (text and numbers), in order of first occurrence
Modes(vals) ==
  LET uniq == Unique(vals)
      top  == {i \in 1..Len(uniq) :
                 \A j \in 1..Len(uniq) : CountOf(uniq[j], vals) <= CountOf(uniq[i], vals)}
      sortable == \/ \A i \in top : IsStr(uniq[i])
                  \/ \A i \in top : IsNum(uniq[i])
      Rank(i) == IF sortable
                 THEN Cardinality({j \in top : CellLess(uniq[j], uniq[i])})
                 ELSE Cardinality({j \in top : j < i})
  IN  [k \in 1..Cardinality(top) |-> uniq[CHOOSE i \in top : Rank(i) = k - 1]]

\* Series.value_counts().nlargest(10).index: the ten most frequent non-null
\* cells, the earlier seen first among equally frequent ones
Top10(vals) ==
  LET uniq == Unique(vals)
      Before(j, i) == \/ CountOf(uniq[j], vals) > CountOf(uniq[i], vals)
                      \/ (CountOf(uniq[j], vals) = CountOf(uniq[i], vals) /\ j < i)
  IN  {uniq[i] : i \in {k \in 1..Len(uniq) :
                          Cardinality({j \in 1..Len(uniq) : Before(j, k)}) < 10}}

\* Series.fillna(val); fillna(NaN) changes nothing
FillNa(vals, val) == [i \in 1..Len(vals) |-> IF IsNull(vals[i]) THEN val ELSE vals[i]]

\* Series.ffill(): a null takes the last value before it, if there is one
ForwardFill(vals) ==
  [i \in 1..Len(vals) |->
     LET seen == {j \in 1..i : ~IsNull(vals[j])}
     IN  IF seen = {} THEN Null
         ELSE vals[CHOOSE j \in seen : \A h \in seen : h <= j]]

\* np.clip(cell, lower, upper); NaN stays NaN
Clip(v, lower, upper) ==
  IF ~IsNum(v) \/ IsNull(lower) THEN v
  ELSE IF RLt(RatOf(v), RatOf(lower)) THEN lower
  ELSE IF RLt(RatOf(upper), RatOf(v)) THEN upper
  ELSE FloatCell(RatOf(v))

\* The state of one apply_fixes call: `orig` is the object the caller passed
\* as df, `df` is df_clean, `shared` says that both names denote one object
\* (so that an in-place change of df_clean shows in the caller's), and
\* `raised` that an exception left the call.

\* df_clean = df, without the copy
AliasOf(frame) ==
  [orig |-> frame, df |-> frame, shared |-> TRUE, audit_log |-> <<>>, raised |-> FALSE]

\* audit_log = []; df_clean = df.copy()
CopyOf(frame) ==
  [orig |-> frame, df |-> frame, shared |-> FALSE, audit_log |-> <<>>, raised |-> FALSE]

\* df_clean[col] = ...: the column of df_clean's object is replaced in place
SetColumn(st, c, dtype, vals) ==
  LET changed == [st.df EXCEPT ![c] = Column(st.df[c].name, dtype, AsDtype(vals, dtype))]
  IN  [st EXCEPT !.df = changed,
                 !.orig = IF st.shared THEN changed ELSE st.orig]

\* df_clean = <a new frame>: the name is bound to a new object
Rebind(st, frame) == [st EXCEPT !.df = frame, !.shared = FALSE]

\* audit_log.append(entry)
Log(st, entry) == [st EXCEPT !.audit_log = Append(st.audit_log, entry)]

\* an exception leaves apply_fixes
Raise(st) == [st EXCEPT !.raised = TRUE]

\* if col: dropna(subset=[col]) and its audit entry; nothing at all otherwise
DropRows(st, col) ==
  IF col = NoColumn THEN st
  ELSE LET c == ColIndex(st.df, col)
       IN  IF c = 0 THEN Raise(st)
           ELSE Log(Rebind(st, TakeRows(st.df, {i \in 1..NRows(st.df) :
                                                  ~IsNull(st.df[c].vals[i])})),
                    <<"D","r","o","p","p","e","d"," ","r","o","w","s"," ","w","i","t","h"," ","m","i","s","s","i","n","g"," ","v","a","l","u","e","s"," ","i","n"," ","'">> \o col \o <<"'">>)

\* fill_mean: df_clean[col] raises KeyError without the column, mean()
\* raises TypeError on text
FillMean(st, col) ==
  LET c == ColIndex(st.df, col)
  IN  IF c = 0 \/ HasText(st.df[c].vals) THEN Raise(st)
      ELSE LET val == Mean(st.df[c].vals)
           IN  Log(SetColumn(st, c, st.df[c].dtype, FillNa(st.df[c].vals, val)),
                   <<"F","i","l","l","e","d"," ","m","i","s","s","i","n","g"," ","'">> \o col \o <<"'"," ","w","i","t","h"," ","m","e","a","n"," ","(">> \o Fixed2(val) \o <<")">>)

\* fill_median
FillMedian(st, col) ==
  LET c == ColIndex(st.df, col)
  IN  IF c = 0 \/ HasText(st.df[c].vals) THEN Raise(st)
      ELSE LET val == Median(st.df[c].vals)
           IN  Log(SetColumn(st, c, st.df[c].dtype, FillNa(st.df[c].vals, val)),
                   <<"F","i","l","l","e","d"," ","m","i","s","s","i","n","g"," ","'">> \o col \o <<"'"," ","w","i","t","h"," ","m","e","d","i","a","n"," ","(">> \o Fixed2(val) \o <<")">>)

\* fill_mode: mode()[0] raises on a column without a value
FillMode(st, col) ==
  LET c == ColIndex(st.df, col)
  IN  IF c = 0 THEN Raise(st)
      ELSE IF Modes(st.df[c].vals) = <<>> THEN Raise(st)
      ELSE LET val == Modes(st.df[c].vals)[1]
           IN  Log(SetColumn(st, c, st.df[c].dtype, FillNa(st.df[c].vals, val)),
                   <<"F","i","l","l","e","d"," ","m","i","s","s","i","n","g"," ","'">> \o col \o <<"'"," ","w","i","t","h"," ","m","o","d","e"," ","(">> \o CellStr(val) \o <<")">>)

\* fill_unknown: a numeric column that takes the text becomes object
FillUnknown(st, col) ==
  LET c == ColIndex(st.df, col)
  IN  IF c = 0 THEN Raise(st)
      ELSE LET vals == FillNa(st.df[c].vals, Str(<<"U","n","k","n","o","w","n">>))
           IN  Log(SetColumn(st, c,
                             IF vals # st.df[c].vals THEN "object" ELSE st.df[c].dtype,
                             vals),
                   <<"F","i","l","l","e","d"," ","m","i","s","s","i","n","g"," ","'">> \o col \o <<"'"," ","w","i","t","h"," ","'","U","n","k","n","o","w","n","'">>)

\* ffill
FFill(st, col) ==
  LET c == ColIndex(st.df, col)
  IN  IF c = 0 THEN Raise(st)
      ELSE Log(SetColumn(st, c, st.df[c].dtype, ForwardFill(st.df[c].vals)),
               <<"F","o","r","w","a","r","d","-","f","i","l","l","e","d"," ","m","i","s","s","i","n","g"," ","v","a","l","u","e","s"," ","i","n"," ","'">> \o col \o <<"'">>)

\* drop_duplicates keeping every row in place
KeepAllRows(frame) == frame

\* df.drop_duplicates(): the rows that repeat no earlier row
DropDuplicates(frame) == TakeRows(frame, (1..NRows(frame)) \ Duplicated(frame))

\* remove_duplicates
RemoveDuplicates(st) ==
  LET before == NRows(st.df)
      after  == DropDuplicates(st.df)
  IN  Log(Rebind(st, after),
          <<"R","e","m","o","v","e","d"," ">> \o IntStr(before - NRows(after)) \o <<" ","d","u","p","l","i","c","a","t","e"," ","r","o","w","s">>)

\* clip_outliers: np.clip gives a float column
ClipOutliers(st, col) ==
  LET c == ColIndex(st.df, col)
  IN  IF c = 0 \/ HasText(st.df[c].vals) THEN Raise(st)
      ELSE LET f == Fences(st.df[c].vals)
           IN  Log(SetColumn(st, c,
                             IF st.df[c].dtype = "object" THEN "object" ELSE "float64",
                             [i \in 1..NRows(st.df) |-> Clip(st.df[c].vals[i], f.lower, f.upper)]),
                   <<"C","l","i","p","p","e","d"," ","o","u","t","l","i","e","r","s"," ","i","n"," ","'">> \o col \o <<"'"," ","t","o"," ","[">> \o Fixed2(f.lower)
                     \o <<","," ">> \o Fixed2(f.upper) \o <<"]">>)

\* drop_outliers
DropOutliers(st, col) ==
  LET c == ColIndex(st.df, col)
  IN  IF c = 0 \/ HasText(st.df[c].vals) THEN Raise(st)
      ELSE Log(Rebind(st, TakeRows(st.df, (1..NRows(st.df)) \ OutlierRows(st.df[c].vals))),
               <<"D","r","o","p","p","e","d"," ","o","u","t","l","i","e","r"," ","r","o","w","s"," ","i","n"," ","'">> \o col \o <<"'">>)

\* convert_numeric
ConvertNumeric(st, col) ==
  LET c == ColIndex(st.df, col)
  IN  IF c = 0 THEN Raise(st)
      ELSE LET vals == [i \in 1..NRows(st.df) |-> ToNumeric(st.df[c].vals[i])]
           IN  Log(SetColumn(st, c, InferDtype(vals), vals),
                   <<"C","o","n","v","e","r","t","e","d"," ","'">> \o col \o <<"'"," ","t","o"," ","N","u","m","e","r","i","c"," ","(","i","n","v","a","l","i","d"," ","v","a","l","u","e","s"," ","s","e","t"," ","t","o"," ","N","a","N",")">>)

\* title_case
TitleCase(st, col) ==
  LET c == ColIndex(st.df, col)
  IN  IF c = 0 THEN Raise(st)
      ELSE Log(SetColumn(st, c, "object",
                         [i \in 1..NRows(st.df) |-> Str(StrTitle(CellStr(st.df[c].vals[i])))]),
               <<"S","t","a","n","d","a","r","d","i","z","e","d"," ","'">> \o col \o <<"'"," ","t","o"," ","T","i","t","l","e"," ","C","a","s","e">>)

\* lower_case
LowerCase(st, col) ==
  LET c == ColIndex(st.df, col)
  IN  IF c = 0 THEN Raise(st)
      ELSE Log(SetColumn(st, c, "object",
                         [i \in 1..NRows(st.df) |-> Str(StrLower(CellStr(st.df[c].vals[i])))]),
               <<"S","t","a","n","d","a","r","d","i","z","e","d"," ","'">> \o col \o <<"'"," ","t","o"," ","L","o","w","e","r"," ","C","a","s","e">>)

\* group_rare: NaN is not in the index of value_counts, so it becomes "Other"
GroupRare(st, col) ==
  LET c == ColIndex(st.df, col)
  IN  IF c = 0 THEN Raise(st)
      ELSE LET top_10 == Top10(st.df[c].vals)
               vals   == [i \in 1..NRows(st.df) |->
                            IF st.df[c].vals[i] \in top_10 THEN st.df[c].vals[i]
                            ELSE Str(<<"O","t","h","e","r">>)]
           IN  Log(SetColumn(st, c,
                             IF vals # st.df[c].vals THEN "object" ELSE st.df[c].dtype,
                             vals),
                   <<"G","r","o","u","p","e","d"," ","r","a","r","e"," ","c","a","t","e","g","o","r","i","e","s"," ","i","n"," ","'">> \o col \o <<"'"," ","i","n","t","o"," ","'","O","t","h","e","r","'">>)

\* the action codes apply_fixes dispatches on
DispatchCodes ==
  {"drop_rows", "fill_mean", "fill_median", "fill_mode", "fill_unknown", "ffill",
   "remove_duplicates", "clip_outliers", "drop_outliers", "convert_numeric",
   "title_case", "lower_case", "group_rare"}

\* issues_map.get(issue_id): the positions of the issue with the id (none or one)
Lookup(issues_map, issue_id) ==
  {i \in 1..Len(issues_map) : issues_map[i].id = issue_id}

\* a fix with an unknown issue id is carried out on an issue without column
SkipsOnlyIgnore(fix, issues_map) == fix.strategy_code = "ignore"

\* if code == "ignore": continue ... if not issue: continue
Skips(fix, issues_map) ==
  fix.strategy_code = "ignore" \/ Lookup(issues_map, fix.issue_id) = {}

\* one pass of the loop body
ApplyFix(st, fix, issues_map) ==
  IF Skips(fix, issues_map) THEN st
  ELSE LET found == Lookup(issues_map, fix.issue_id)
           col   == IF found = {} THEN NoColumn
                    ELSE issues_map[CHOOSE i \in found : TRUE].column
           code  == fix.strategy_code
       IN  IF code = "drop_rows" THEN DropRows(st, col)
           ELSE IF code = "fill_mean" THEN FillMean(st, col)
           ELSE IF code = "fill_median" THEN FillMedian(st, col)
           ELSE IF code = "fill_mode" THEN FillMode(st, col)
           ELSE IF code = "fill_unknown" THEN FillUnknown(st, col)
           ELSE IF code = "ffill" THEN FFill(st, col)
           ELSE IF code = "remove_duplicates" THEN RemoveDuplicates(st)
           ELSE IF code = "clip_outliers" THEN ClipOutliers(st, col)
           ELSE IF code = "drop_outliers" THEN DropOutliers(st, col)
           ELSE IF code = "convert_numeric" THEN ConvertNumeric(st, col)
           ELSE IF code = "title_case" THEN TitleCase(st, col)
           ELSE IF code = "lower_case" THEN LowerCase(st, col)
           ELSE IF code = "group_rare" THEN GroupRare(st, col)
           ELSE st

RECURSIVE ApplyLoop(_, _, _)
\* for fix in fixes: ..., left when a fix raises
ApplyLoop(st, fix_list, issues_map) ==
  IF fix_list = <<>> \/ st.raised THEN st
  ELSE CHOOSE out \in {ApplyLoop(next, Tail(fix_list), issues_map) :
                         next \in {ApplyFix(st, fix_list[1], issues_map)}} : TRUE

\* apply_fixes(df, fixes, issues_map)
ApplyFixes(frame, fix_list, issues_map) ==
  ApplyLoop(CopyOf(frame), fix_list, issues_map)

----------------------------------------------------------------------------
(* The session: upload_dataset and clean_dataset (app/main.py)             *)

\* an upload with a missing amount and a repeated row
OrdersFrame ==
  <<Column(<<"a","m","o","u","n","t">>, "float64",
           AsDtype(<<IntCell(10), Null, IntCell(10), IntCell(40)>>, "float64")),
    Column(<<"c","i","t","y">>, "object",
           <<Str(<<"R","o","m","e">>), Str(<<"O","s","l","o">>), Str(<<"R","o","m","e">>), Str(<<"B","e","r","n">>)>>)>>

\* an upload of one text column with differently cased tags and two rows
\* that repeat the first
TagsFrame ==
  <<Column(<<"t","a","g">>, "object",
           <<Str(<<"n","e","w">>), Str(<<"N","e","w">>), Str(<<"n","e","w">>), Str(<<"n","e","w">>), Str(<<"o","l","d">>)>>)>>

UploadedFrames == {OrdersFrame, TagsFrame}

\* the strategy codes a request may carry: those of the dispatch table,
\* "ignore", and one that no table knows
RequestCodes == DispatchCodes \cup {"ignore", "one_hot_encode"}

\* the fixes a request may carry: about an issue of the session or about an
\* issue id the session does not hold
FixPool ==
  {[issue_id |-> id, strategy_code |-> code] :
     id \in {issues[i].id : i \in 1..Len(issues)} \cup {ids_used + 1},
     code \in RequestCodes}

FixLists == UNION {[1..n -> FixPool] : n \in 0..MaxFixes}

Init ==
  /\ pc = "start"
  /\ uploaded = <<>>
  /\ df = <<>>
  /\ issues = <<>>
  /\ audit_log = <<>>
  /\ ids_used = 0
  /\ command = <<>>
  /\ actions = <<>>
  /\ fixes = <<>>
  /\ result = <<>>
  /\ InitLimiter

\* POST /api/upload: create_session, analyze, save_issues
Upload ==
  /\ pc = "start"
  /\ \E frame \in UploadedFrames :
       /\ uploaded' = frame
       /\ df' = frame
       /\ issues' = Analyze(frame, ids_used)
  /\ audit_log' = <<>>
  /\ ids_used' = ids_used + Len(issues')
  /\ pc' = "analyzed"
  /\ UNCHANGED <<command, actions, fixes, result>>
  /\ UNCHANGED limiter

\* a clean request that keeps the issue index of the pass before it
CleanRequestKeepsIndex(fix_list) ==
  /\ \E r \in {ApplyFixes(df, fix_list, issues)} :
       /\ fixes' = fix_list
       /\ result' = r
       /\ IF r.raised
          THEN /\ pc' = "failed"
               /\ df' = r.orig
               /\ UNCHANGED audit_log
          ELSE /\ pc' = "cleaned"
               /\ df' = r.df
               /\ audit_log' = audit_log \o r.audit_log
  /\ UNCHANGED <<uploaded, issues, ids_used, command, actions>>
  /\ UNCHANGED limiter

\* POST /api/session/{id}/clean with the fixes of the request: apply_fixes,
\* update_dataframe, log_action, analyze, save_issues; an exception of
\* apply_fixes leaves the session as it is
CleanRequest(fix_list) ==
  /\ \E r \in {ApplyFixes(df, fix_list, issues)} :
       /\ fixes' = fix_list
       /\ result' = r
       /\ IF r.raised
          THEN /\ pc' = "failed"
               /\ df' = r.orig
               /\ UNCHANGED <<issues, audit_log, ids_used>>
          ELSE /\ pc' = "cleaned"
               /\ df' = r.df
               /\ audit_log' = audit_log \o r.audit_log
               /\ issues' = Analyze(r.df, ids_used)
               /\ ids_used' = ids_used + Len(issues')
  /\ UNCHANGED <<uploaded, command, actions>>
  /\ UNCHANGED limiter

\* the first clean request of a session
Clean ==
  /\ pc = "analyzed"
  /\ \E fix_list \in FixLists : CleanRequest(fix_list)

Next == Upload \/ Clean

Spec == Init /\ [][Next]_vars

----------------------------------------------------------------------------
(* Claims about apply_fixes (checked under Spec)                           *)

\* a clean request has just run: apply_fixes was called with the session's
\* data set df, the request's fixes' and the issue index `issues`, and
\* result' is how the call ended
CleanStep == pc = "analyzed" /\ pc' \in {"cleaned", "failed"}

\* the fix names an issue of the index the request ran against
KnownIssue(fix) == \E i \in 1..Len(issues) : issues[i].id = fix.issue_id

\* the column of the issue the fix names
IssueColumn(fix) ==
  issues[CHOOSE i \in 1..Len(issues) : issues[i].id = fix.issue_id].column

\* the fix is "ignore", names an unknown issue, or has a code outside the
\* dispatch table
SilentFix(fix) ==
  \/ fix.strategy_code = "ignore"
  \/ ~KnownIssue(fix)
  \/ fix.strategy_code \notin
       {"drop_rows", "fill_mean", "fill_median", "fill_mode", "fill_unknown", "ffill",
        "remove_duplicates", "clip_outliers", "drop_outliers", "convert_numeric",
        "title_case", "lower_case", "group_rare"}

\* the state of apply_fixes after the first k fixes of the list
StateAfter(frame, fix_list, k, issues_map) ==
  ApplyLoop(CopyOf(frame), SubSeq(fix_list, 1, k), issues_map)

\* C3: a fix that is "ignore", names an unknown issue id or has a code
\* outside the dispatch table raises no error, adds no audit entry and
\* leaves the working data set as the fixes before it left it; so a request
\* made only of such fixes (the empty request too) returns a data set equal
\* to the input and an empty audit log, and the session's data set and
\* audit log stay as they were.
C3_SilentSkips ==
  [][CleanStep
       => /\ \A k \in 1..Len(fixes') :
               SilentFix(fixes'[k])
                 => StateAfter(df, fixes', k, issues) = StateAfter(df, fixes', k - 1, issues)
          /\ (\A k \in 1..Len(fixes') : SilentFix(fixes'[k]))
               => /\ ~result'.raised
                  /\ result'.df = df
                  /\ result'.audit_log = <<>>
                  /\ df' = df
                  /\ audit_log' = audit_log]_vars

\* a request of an unknown code for the first issue and of fill_mean for an
\* issue id the session does not hold has run and changed nothing
C3_Witness ==
  /\ pc = "cleaned"
  /\ uploaded = OrdersFrame
  /\ fixes = <<[issue_id |-> 1, strategy_code |-> "one_hot_encode"],
               [issue_id |-> 3, strategy_code |-> "fill_mean"]>>
  /\ result.df = uploaded
  /\ result.audit_log = <<>>

\* C4: whether apply_fixes returns or raises, the data set the caller passed
\* has the rows and values it had before the call.
C4_InputUntouched ==
  [][CleanStep => (result'.orig = df /\ ~result'.shared)]_vars

\* apply_fixes changed its copy and then raised, and the caller's data set
\* is as uploaded
C4_Witness ==
  /\ pc = "failed"
  /\ result.df # uploaded
  /\ result.audit_log # <<>>
  /\ result.orig = uploaded
  /\ df = uploaded

\* the fix has a known issue id and a code of the dispatch table
AuditedFix(fix) == ~SilentFix(fix)

\* the words by which the audit entry of an action code is known
AuditMark(code) ==
  CASE code = "drop_rows" -> <<"D","r","o","p","p","e","d"," ","r","o","w","s"," ","w","i","t","h"," ","m","i","s","s","i","n","g"," ","v","a","l","u","e","s"," ","i","n">>
    [] code = "fill_mean" -> <<"w","i","t","h"," ","m","e","a","n"," ","(">>
    [] code = "fill_median" -> <<"w","i","t","h"," ","m","e","d","i","a","n"," ","(">>
    [] code = "fill_mode" -> <<"w","i","t","h"," ","m","o","d","e"," ","(">>
    [] code = "fill_unknown" -> <<"w","i","t","h"," ","'","U","n","k","n","o","w","n","'">>
    [] code = "ffill" -> <<"F","o","r","w","a","r","d","-","f","i","l","l","e","d"," ","m","i","s","s","i","n","g"," ","v","a","l","u","e","s"," ","i","n">>
    [] code = "remove_duplicates" -> <<"d","u","p","l","i","c","a","t","e"," ","r","o","w","s">>
    [] code = "clip_outliers" -> <<"C","l","i","p","p","e","d"," ","o","u","t","l","i","e","r","s"," ","i","n">>
    [] code = "drop_outliers" -> <<"D","r","o","p","p","e","d"," ","o","u","t","l","i","e","r"," ","r","o","w","s"," ","i","n">>
    [] code = "convert_numeric" -> <<"t","o"," ","N","u","m","e","r","i","c"," ","(","i","n","v","a","l","i","d"," ","v","a","l","u","e","s"," ","s","e","t"," ","t","o"," ","N","a","N",")">>
    [] code = "title_case" -> <<"t","o"," ","T","i","t","l","e"," ","C","a","s","e">>
    [] code = "lower_case" -> <<"t","o"," ","L","o","w","e","r"," ","C","a","s","e">>
    [] code = "group_rare" -> <<"G","r","o","u","p","e","d"," ","r","a","r","e"," ","c","a","t","e","g","o","r","i","e","s"," ","i","n">>

\* C5 (as claimed): when apply_fixes returns, its audit log has exactly one
\* entry per fix with a known issue id and a dispatch-table code, in the
\* order of the fixes.
C5_OneEntryPerFix ==
  [][(pc = "analyzed" /\ pc' = "cleaned")
       => LET audited == {k \in 1..Len(fixes') : AuditedFix(fixes'[k])}
          IN  /\ Len(result'.audit_log) = Cardinality(audited)
              /\ \A k \in 1..Len(result'.audit_log) :
                   k <= Cardinality(audited) =>
                     Contains(AuditMark(fixes'[Kth(audited, k)].strategy_code),
                              result'.audit_log[k])]_vars

\* the action codes that work on the issue's column
ColumnScopedCodes ==
  {"drop_rows", "fill_mean", "fill_median", "fill_mode", "fill_unknown", "ffill",
   "clip_outliers", "drop_outliers", "convert_numeric", "title_case", "lower_case",
   "group_rare"}

\* C6 (as claimed): a request with a column-scoped code for a known issue
\* without column makes apply_fixes fail with an error.
C6_MissingColumnRaises ==
  [][(CleanStep /\ \E k \in 1..Len(fixes') :
                     /\ KnownIssue(fixes'[k])
                     /\ IssueColumn(fixes'[k]) = <<>>
                     /\ fixes'[k].strategy_code \in ColumnScopedCodes)
       => result'.raised]_vars

\* the rows of a frame that repeat no earlier row
FirstOccurrences(frame) ==
  {i \in 1..NRows(frame) : \A j \in 1..(i - 1) : Row(frame, j) # Row(frame, i)}

\* C9: remove_duplicates for a known issue on a data set with d > 0
\* duplicate rows returns the first occurrence of each distinct row, in the
\* original order and without a duplicate, with the one audit entry
\* "Removed d duplicate rows"; the detection pass that follows finds no
\* Duplicates issue.
C9_RemoveDuplicates ==
  [][(/\ CleanStep
      /\ Len(fixes') = 1
      /\ KnownIssue(fixes'[1])
      /\ fixes'[1].strategy_code = "remove_duplicates"
      /\ Cardinality(FirstOccurrences(df)) < NRows(df))
       => LET out  == result'.df
              kept == FirstOccurrences(df)
          IN  /\ ~result'.raised
              /\ Len(out) = Len(df)
              /\ \A c \in 1..Len(df) :
                   out[c].name = df[c].name /\ out[c].dtype = df[c].dtype
              /\ NRows(out) = Cardinality(kept)
              /\ \A k \in 1..NRows(out) : Row(out, k) = Row(df, Kth(kept, k))
              /\ \A a, b \in 1..NRows(out) : a # b => Row(out, a) # Row(out, b)
              /\ result'.audit_log =
                   <<<<"R","e","m","o","v","e","d"," ">> \o NatStr(NRows(df) - Cardinality(kept))
                       \o <<" ","d","u","p","l","i","c","a","t","e"," ","r","o","w","s">>>>
              /\ df' = out
              /\ \A i \in 1..Len(issues') : issues'[i].type # "Duplicates"]_vars

\* remove_duplicates has run alone on the tags upload and removed the two
\* rows that repeat the first
C9_Witness ==
  /\ pc = "cleaned"
  /\ uploaded = TagsFrame
  /\ Len(fixes) = 1
  /\ fixes[1].strategy_code = "remove_duplicates"
  /\ NRows(df) = NRows(uploaded) - 2
  /\ result.audit_log = <<<<"R","e","m","o","v","e","d"," ","2"," ","d","u","p","l","i","c","a","t","e"," ","r","o","w","s">>>>

-----------------------------------------------------------------------------
(* Claims about the text-casing check of analyze on a session's data set   *)

\* two distinct text values of the column differ in letter case alone
CaseOnlyPair(vals) ==
  \E i, j \in 1..Len(vals) :
    /\ IsStr(vals[i]) /\ IsStr(vals[j])
    /\ vals[i].s # vals[j].s
    /\ StrLower(vals[i].s) = StrLower(vals[j].s)

\* the column holds a text value and a non-null value that is not text
MixedColumn(vals) ==
  (\E i \in 1..Len(vals) : IsStr(vals[i])) /\ (\E j \in 1..Len(vals) : IsNum(vals[j]))

\* C11 (as claimed): after a detection pass, a text column with fewer than
\* 50 distinct non-null values has a TextInconsistency issue, of severity
\* Low, exactly when two of its distinct values differ in letter case
\* alone; a column that mixes text and non-text values without such a pair
\* has none.
C11_TextInconsistency ==
  pc \in {"analyzed", "cleaned"} =>
    \A c \in 1..Len(df) :
      (df[c].dtype = "object" /\ NUnique(df[c].vals) < 50) =>
        LET found == IssuesAbout(TEXT_INCONSISTENCY, df[c].name)
        IN  /\ (found # {}) <=> CaseOnlyPair(df[c].vals)
            /\ \A i \in found : issues[i].severity = "Low"

-----------------------------------------------------------------------------
(* Narration: analyze_session (app/main.py) hands the issues of the        *)
(* session to NLPService.generate_insight                                  *)

\* most missing cells of a generated column
MaxNulls == 51

\* generate_insight(issues): recommended_actions holds the default strategy
\* of every issue for which it is not "ignore"; action_count is their number
GenerateInsight(iss) ==
  LET recommended == Selections(iss, LAMBDA i : DefaultStrategy(i) # "ignore", DefaultStrategy)
  IN  [recommended_actions |-> recommended, action_count |-> Len(recommended)]

\* a column of m missing cells followed by two values: numbers (float64,
\* as read_csv types a numeric column with gaps) or text (object)
GappyFrame(name, dtype, m) ==
  <<Column(name, dtype,
           [i \in 1..(m + 2) |->
              IF i <= m THEN Null
              ELSE IF dtype = "float64" THEN FloatCell(RInt(10 + i - m))
              ELSE Str(Label(i - m))])>>

GappyNames ==
  {<<"a","m","o","u","n","t">>, <<"c","i","t","y">>, <<"s","i","g","n","u","p","_","d","a","t","e">>, <<"E","v","e","n","t","T","i","m","e">>, <<"N","u","m","e","r","i","c","_","s","c","o","r","e">>, <<"n","u","m","e","r","i","c","_","r","a","n","k">>}

GappyFrames ==
  {GappyFrame(name, dtype, m) :
     name \in GappyNames, dtype \in {"float64", "object"}, m \in 1..MaxNulls}

InitAdvise ==
  /\ pc = "analyzed"
  /\ df \in GappyFrames
  /\ uploaded = df
  /\ issues = Analyze(df, 0)
  /\ audit_log = <<>>
  /\ ids_used = Len(issues)
  /\ command = <<>>
  /\ actions = <<>>
  /\ fixes = <<>>
  /\ result = <<>>
  /\ InitLimiter

\* GET /api/session/{id}/analyze
Narrate ==
  /\ pc = "analyzed"
  /\ pc' = "narrated"
  /\ \E insight \in {GenerateInsight(issues)} :
       /\ result' = insight
       /\ actions' = insight.recommended_actions
  /\ UNCHANGED <<uploaded, df, issues, audit_log, ids_used, command, fixes>>
  /\ UNCHANGED limiter

NextAdvise == Narrate

SpecAdvise == InitAdvise /\ [][NextAdvise]_vars

-----------------------------------------------------------------------------
(* Claims about the advisor default (checked under SpecAdvise)             *)

\* the strategy recommended for the issue with this id, "" when none is
RecommendedFor(id) ==
  LET at == {k \in 1..Len(actions) : actions[k].issue_id = id}
  IN  IF at = {} THEN "" ELSE actions[CHOOSE k \in at : TRUE].strategy_code

\* the default the rule gives for a MissingValues issue
MissingDefault(issue) ==
  IF issue.row_count < 50 THEN "drop_rows"
  ELSE IF \/ Contains(<<"d","a","t","e">>, StrLower(issue.column))
          \/ Contains(<<"t","i","m","e">>, StrLower(issue.column)) THEN "ffill"
  ELSE IF Contains(<<"N","u","m","e","r","i","c">>, issue.description) THEN "fill_median"
  ELSE "fill_mode"

\* C12: the default strategy of a MissingValues issue is drop_rows when
\* row_count is below 50, else ffill when the lower-cased column name
\* contains "date" or "time", else fill_median when the description
\* contains "Numeric", else fill_mode; it is the strategy recommended for
\* the issue, and it depends on the issue alone.
C12_MissingDefault ==
  /\ \A i \in 1..Len(issues) :
       issues[i].type = MISSING_VALUES =>
         /\ DefaultStrategy(issues[i]) = MissingDefault(issues[i])
         /\ pc = "narrated" => RecommendedFor(issues[i].id) = MissingDefault(issues[i])
  /\ pc = "narrated" => actions = GenerateInsight(issues).recommended_actions

\* all four outcomes: 50 missing cells in a column called EventTime are
\* forward-filled
C12_Witness ==
  /\ pc = "narrated"
  /\ \E i \in 1..Len(issues) :
       /\ issues[i].type = MISSING_VALUES
       /\ issues[i].row_count = 50
       /\ issues[i].column = <<"E","v","e","n","t","T","i","m","e">>
       /\ RecommendedFor(issues[i].id) = "ffill"

\* the action codes of the strategies the detector offers for the issue
Offered(issue) == {issue.strategies[k] : k \in 1..Len(issue.strategies)}

\* C13 (as claimed): the default strategy of every issue of a detection
\* pass is one of the strategies the detector offers for that issue, and so
\* is every strategy the narration recommends.
C13_DefaultIsOffered ==
  /\ \A i \in 1..Len(issues) : DefaultStrategy(issues[i]) \in Offered(issues[i])
  /\ pc = "narrated" =>
       \A k \in 1..Len(actions) :
         \E i \in 1..Len(issues) :
           /\ issues[i].id = actions[k].issue_id
           /\ actions[k].strategy_code \in Offered(issues[i])

-----------------------------------------------------------------------------
(* A session with several clean requests                                   *)

\* no clean request is explored once this many issue ids are handed out
MaxIds == 6

\* the strategy codes of the requests of a long session: some that change
\* the data set, one that raises on a text column, "ignore"
SessionCodes ==
  {"drop_rows", "fill_unknown", "fill_mean", "remove_duplicates", "title_case", "ignore"}

\* requests of no fix or of one fix, about any issue id handed out so far
\* (of the current pass or of an earlier one) or about one never handed out
SessionFixLists ==
  {<<>>} \cup {<<[issue_id |-> id, strategy_code |-> code]>> :
                 id \in 1..(ids_used + 1), code \in SessionCodes}

\* a clean request at any time after the upload
CleanAgain ==
  /\ pc \in {"analyzed", "cleaned", "failed"}
  /\ ids_used < MaxIds
  /\ \E fix_list \in SessionFixLists : CleanRequest(fix_list)

NextSession == Upload \/ CleanAgain

SpecSession == Init /\ [][NextSession]_vars

-----------------------------------------------------------------------------
(* Claims about the issue index of a session (checked under SpecSession)   *)

\* the last issue id handed out before the latest detection pass
PassBase == ids_used - Len(issues)

\* the fix names an issue id of a pass before the latest one
StaleFix(fix) == fix.issue_id \in 1..PassBase

\* C14: after an upload or a clean request that completed, the issue index
\* holds exactly the issues of the detection pass on the session's current
\* data set, under ids that no earlier pass handed out; and a clean request
\* of fixes that all name ids of passes before the latest one is skipped
\* entirely: no error, the data set unchanged, no audit entry added, as
\* many rows after as before.
C14_FreshIssueIndex ==
  /\ [](pc \in {"analyzed", "cleaned"} =>
          /\ issues = Analyze(df, PassBase)
          /\ \A i \in 1..Len(issues) : issues[i].id = PassBase + i)
  /\ [][(/\ pc \in {"analyzed", "cleaned", "failed"}
         /\ pc' \in {"cleaned", "failed"}
         /\ fixes' # <<>>
         /\ \A k \in 1..Len(fixes') : StaleFix(fixes'[k]))
          => /\ pc' = "cleaned"
             /\ df' = df
             /\ audit_log' = audit_log
             /\ result'.audit_log = <<>>
             /\ NRows(result'.df) = NRows(result'.orig)]_vars

\* a duplicate removal completed, and the request after it, a title_case
\* for the TextInconsistency issue under its id of the upload's pass, left
\* the differently cased tags as they were
C14_Witness ==
  /\ pc = "cleaned"
  /\ uploaded = TagsFrame
  /\ PassBase >= 3
  /\ fixes = <<[issue_id |-> 2, strategy_code |-> "title_case"]>>
  /\ audit_log = <<<<"R","e","m","o","v","e","d"," ","2"," ","d","u","p","l","i","c","a","t","e"," ","r","o","w","s">>>>
  /\ NRows(df) = 3
  /\ \E i \in 1..Len(issues) : issues[i].type = TEXT_INCONSISTENCY

-----------------------------------------------------------------------------
(* The rate limiter: rate_limit_middleware (app/main.py)                   *)

RATE_LIMIT_DURATION == 60
MAX_REQUESTS_PER_MINUTE == 20

\* the times at which requests arrive, in seconds: two before a window of
\* RATE_LIMIT_DURATION has passed since the first, one exactly as it passes
ClockReadings == {0, 59, 60}

\* [t for t in request_counts[client_ip] if now - t < RATE_LIMIT_DURATION]
Recent(times, at) == SelectSeq(times, LAMBDA t : at - t < RATE_LIMIT_DURATION)

\* `GET /` from client_ip through rate_limit_middleware.  Under the limit
\* the time is recorded and call_next hands the request to root(), which
\* answers 200.  At the limit the middleware evaluates JSONResponse, a name
\* main.py neither imports nor defines: the NameError leaves the middleware
\* and the server answers 500 Internal Server Error.
Request(client_ip) ==
  LET recent == Recent(request_counts[client_ip], now)
  IN  /\ IF Len(recent) >= MAX_REQUESTS_PER_MINUTE
         THEN /\ request_counts' = [request_counts EXCEPT ![client_ip] = recent]
              /\ response' = [client |-> client_ip, forwarded |-> FALSE,
                              status_code |-> 500, detail |-> <<"I","n","t","e","r","n","a","l"," ","S","e","r","v","e","r"," ","E","r","r","o","r">>]
         ELSE /\ request_counts' = [request_counts EXCEPT ![client_ip] = Append(recent, now)]
              /\ response' = [client |-> client_ip, forwarded |-> TRUE,
                              status_code |-> 200, detail |-> <<>>]
      /\ UNCHANGED <<now, pc, uploaded, df, issues, audit_log, ids_used, command, actions,
                     fixes, result>>

\* time passes between two requests
Tick ==
  /\ \E t \in ClockReadings : t > now /\ now' = t
  /\ UNCHANGED <<request_counts, response, pc, uploaded, df, issues, audit_log, ids_used,
                 command, actions, fixes, result>>

NextRateLimit == (\E client_ip \in Clients : Request(client_ip)) \/ Tick

SpecRateLimit == Init /\ [][NextRateLimit]_vars

-----------------------------------------------------------------------------
(* Claims about the rate limiter (checked under SpecRateLimit)             *)

\* a request of the client passes the middleware in this step
RequestStep(client_ip) ==
  /\ now' = now
  /\ \A other \in Clients \ {client_ip} : request_counts'[other] = request_counts[other]
  /\ response' # <<>>
  /\ response'.client = client_ip
  /\ \/ response' # response
     \/ request_counts' # request_counts

\* the times recorded for the client in the last RATE_LIMIT_DURATION seconds
RecordedInWindow(client_ip) ==
  {k \in 1..Len(request_counts[client_ip]) :
     now - request_counts[client_ip][k] < RATE_LIMIT_DURATION}

\* C15 (as claimed): no client has more than 20 requests forwarded (and so
\* recorded) within 60 seconds; a request that arrives when 20 requests of
\* its client are recorded in the last 60 seconds is not forwarded, its time
\* is not recorded, and it is answered 429 with a detail that starts "Rate
\* limit exceeded"; times 60 seconds old or older are discarded before the
\* count.
C15_RateLimit ==
  /\ [](\A ip \in Clients : \A k \in 1..Len(request_counts[ip]) :
          Cardinality({j \in 1..Len(request_counts[ip]) :
                         /\ request_counts[ip][k] <= request_counts[ip][j]
                         /\ request_counts[ip][j] < request_counts[ip][k] + 60}) <= 20)
  /\ [][\A ip \in Clients :
          RequestStep(ip) =>
            /\ \A k \in 1..Len(request_counts'[ip]) : now - request_counts'[ip][k] < 60
            /\ Cardinality(RecordedInWindow(ip)) >= 20 =>
                 /\ ~response'.forwarded
                 /\ Len(request_counts'[ip]) = Cardinality(RecordedInWindow(ip))
                 /\ response'.status_code = 429
                 /\ Len(response'.detail) >= 19
                 /\ SubSeq(response'.detail, 1, 19) = <<"R","a","t","e"," ","l","i","m","i","t"," ","e","x","c","e","e","d","e","d">>
            /\ Cardinality(RecordedInWindow(ip)) < 20 =>
                 /\ response'.forwarded
                 /\ request_counts'[ip][Len(request_counts'[ip])] = now]_vars

====
